---- MODULE Spec2Model ----
(***************************************************************************)
(* A model of lis.py, a small Scheme interpreter: the reader (tokenize,    *)
(* read_from_tokens, atom), the environment chain (Env), user procedures   *)
(* (Procedure), the evaluator (evaluate) and the read-eval-print loop.     *)
(*                                                                         *)
(* Text is a sequence of one-character strings.  A Python exception is an  *)
(* outcome whose err field names the exception class; err = "" means the   *)
(* call returned.  Frames live in a heap (a sequence); frame 1 is          *)
(* GLOBAL_ENV and outer = 0 stands for outer = None.  Frames no value can  *)
(* reach any more are reclaimed when a top-level call ends, as the host    *)
(* does.                                                                   *)
(***************************************************************************)
EXTENDS Integers, Sequences, FiniteSets, TLC

VARIABLES
    text,     \* reader run: the string handed to parse
    tokens,   \* reader run: the token list tokenize returned
    rd,       \* reader run: the outcome of read_from_tokens
    rpc,      \* reader run: "text", "tokens" or "done"
    heap,     \* the Env objects; heap[1] is GLOBAL_ENV
    inp,      \* the last string given to evaluate(parse(...))
    out,      \* the outcome of that call: [val, err]
    log,      \* what that call did, in order: closure calls, define, set!
    pc        \* the repl loop: "read", "print" or "dead"

vars == <<text, tokens, rd, rpc, heap, inp, out, log, pc>>
readerVars == <<text, tokens, rd, rpc>>
evalVars == <<heap, inp, out, log, pc>>

\* ------------------------------------------------------------------ bounds
MaxText == 6      \* longest text of a reader run
MaxDepth == 12    \* deepest nesting of evaluate calls before RecursionError

\* ------------------------------------------------------------------ values
\* One record shape for every runtime value, so that any two compare.
Num(i) == [tag |-> "num", n |-> i, k |-> 0, s |-> <<>>, l |-> <<>>, env |-> 0, born |-> 0]
Flt(m, e) == [tag |-> "float", n |-> m, k |-> e, s |-> <<>>, l |-> <<>>, env |-> 0, born |-> 0]
Bool(b) == [tag |-> "bool", n |-> IF b THEN 1 ELSE 0, k |-> 0, s |-> <<>>, l |-> <<>>, env |-> 0, born |-> 0]
Symbol(cs) == [tag |-> "sym", n |-> 0, k |-> 0, s |-> cs, l |-> <<>>, env |-> 0, born |-> 0]
List(xs) == [tag |-> "list", n |-> 0, k |-> 0, s |-> <<>>, l |-> xs, env |-> 0, born |-> 0]
None == [tag |-> "none", n |-> 0, k |-> 0, s |-> <<>>, l |-> <<>>, env |-> 0, born |-> 0]
Builtin(cs) == [tag |-> "builtin", n |-> 0, k |-> 0, s |-> cs, l |-> <<>>, env |-> 0, born |-> 0]

\* ------------------------------------------------------------------ reader
LP == "("
RP == ")"
SP == " "

\* str.replace(c, r) for a one-character c: Before(i) characters of the
\* result come from the characters before str[i]
Replace(str, c, r) ==
    LET Before(i) == (i - 1) + (Len(r) - 1) * Cardinality({j \in 1..(i - 1) : str[j] = c})
    IN  [p \in 1..Before(Len(str) + 1) |->
            LET i == CHOOSE i \in DOMAIN str : Before(i) < p /\ p <= Before(i + 1)
            IN  IF str[i] = c THEN r[p - Before(i)] ELSE str[i]]

\* str.split(): the maximal runs of non-blank characters, left to right
Split(str) ==
    LET starts == {i \in DOMAIN str : str[i] # SP /\ (i = 1 \/ str[i - 1] = SP)}
        EndOf(i) == CHOOSE j \in i..Len(str) :
                        /\ \A m \in i..j : str[m] # SP
                        /\ (j = Len(str) \/ str[j + 1] = SP)
    IN  [t \in 1..Cardinality(starts) |->
            LET i == CHOOSE i \in starts : Cardinality({j \in starts : j <= i}) = t
            IN  SubSeq(str, i, EndOf(i))]

tokenize(string_input) ==
    Split(Replace(Replace(string_input, LP, <<SP, LP, SP>>), RP, <<SP, RP, SP>>))

DigitChars == <<"0", "1", "2", "3", "4", "5", "6", "7", "8", "9">>
IsDigit(c) == \E i \in DOMAIN DigitChars : DigitChars[i] = c
DigitVal(c) == (CHOOSE i \in DOMAIN DigitChars : DigitChars[i] = c) - 1
AllDigits(cs) == \A i \in DOMAIN cs : IsDigit(cs[i])

RECURSIVE Decimal(_)
\* the number a non-empty digit string denotes
Decimal(cs) ==
    IF cs = <<>> THEN 0
    ELSE 10 * Decimal(SubSeq(cs, 1, Len(cs) - 1)) + DigitVal(cs[Len(cs)])

HasSign(cs) == cs # <<>> /\ Head(cs) \in {"+", "-"}
Unsigned(cs) == IF HasSign(cs) THEN Tail(cs) ELSE cs
Signed(cs, m) == IF HasSign(cs) /\ Head(cs) = "-" THEN 0 - m ELSE m

\* int(token) succeeds: an optional sign and one or more digits
IsInt(token) == Unsigned(token) # <<>> /\ AllDigits(Unsigned(token))

\* float(token) succeeds: an optional sign, digits with at most one ".", at
\* least one digit (exponents, inf and nan are spelled with letters the
\* modelled inputs never put in a numeric token)
DotAt(cs) == {i \in DOMAIN cs : cs[i] = "."}
WithoutDot(cs) == SelectSeq(cs, LAMBDA c : c # ".")
IsFloat(token) ==
    /\ Cardinality(DotAt(Unsigned(token))) <= 1
    /\ WithoutDot(Unsigned(token)) # <<>>
    /\ AllDigits(WithoutDot(Unsigned(token)))

RECURSIVE Normal(_, _)
\* m / 10^e with the trailing zeros of the fraction dropped
Normal(m, e) == IF e > 0 /\ m % 10 = 0 THEN Normal(m \div 10, e - 1) ELSE Flt(m, e)

FloatOf(token) ==
    LET u == Unsigned(token)
        dot == IF DotAt(u) = {} THEN Len(u) ELSE CHOOSE i \in DotAt(u) : TRUE
        r == Normal(Decimal(WithoutDot(u)), Len(u) - dot)
    IN  Flt(Signed(token, r.n), r.k)

atom(token) ==
    IF IsInt(token) THEN Num(Signed(token, Decimal(Unsigned(token))))
    ELSE IF IsFloat(token) THEN FloatOf(token)
    ELSE Symbol(token)

\* the outcome of a read: the expression, the tokens left in the shared list,
\* and the exception raised, if any
Read(v, rest, err) == [val |-> v, rest |-> rest, err |-> err]

RECURSIVE read_from_tokens(_), ReadList(_, _), ReadListKeepCloser(_, _)

\* ReadList without line 44: the closer is left in the token list
ReadListKeepCloser(toks, L) ==
    IF toks = <<>> THEN Read(None, toks, "IndexError")
    ELSE IF Head(toks) = <<RP>> THEN Read(List(L), toks, "")
    ELSE LET r == read_from_tokens(toks)
         IN  IF r.err # "" THEN r ELSE ReadListKeepCloser(r.rest, Append(L, r.val))

\* lines 41-46: the while loop collecting sub-expressions up to the closer
ReadList(toks, L) ==
    IF toks = <<>> THEN Read(None, toks, "IndexError")
    ELSE IF Head(toks) = <<RP>> THEN Read(List(L), Tail(toks), "")
    ELSE LET r == read_from_tokens(toks)
         IN  IF r.err # "" THEN r ELSE ReadList(r.rest, Append(L, r.val))

read_from_tokens(toks) ==
    IF toks = <<>> THEN Read(None, toks, "SyntaxError")
    ELSE LET token == Head(toks)
         IN  IF token = <<LP>> THEN ReadList(Tail(toks), <<>>)
             ELSE IF token = <<RP>> THEN Read(None, Tail(toks), "SyntaxError")
             ELSE Read(atom(token), Tail(toks), "")

parse(program) == read_from_tokens(tokenize(program))

\* ------------------------------------------------------------------ reader runs
Alphabet == {LP, RP, SP, "a", "1", "."}
Texts == UNION {[1..n -> Alphabet] : n \in 0..MaxText}

NoRead == Read(None, <<>>, "")

ReaderInit ==
    /\ text \in Texts
    /\ tokens = <<>>
    /\ rd = NoRead
    /\ rpc = "text"

Tokenize ==
    /\ rpc = "text"
    /\ tokens' = tokenize(text)
    /\ rpc' = "tokens"
    /\ UNCHANGED <<text, rd, evalVars>>

ReadTokens ==
    /\ rpc = "tokens"
    /\ rd' = read_from_tokens(tokens)
    /\ rpc' = "done"
    /\ UNCHANGED <<text, tokens, evalVars>>

\* ------------------------------------------------------------------ environments
kIf == <<"i", "f">>
kQuote == <<"q", "u", "o", "t", "e">>
kDefine == <<"d", "e", "f", "i", "n", "e">>
kSet == <<"s", "e", "t", "!">>
kLambda == <<"l", "a", "m", "b", "d", "a">>
bAdd == <<"+">>
bList == <<"l", "i", "s", "t">>
bNot == <<"n", "o", "t">>
bBegin == <<"b", "e", "g", "i", "n">>

\* An Env object: its own dict entries and its outer Env
Env(vs, outer) == [vars |-> vs, outer |-> outer]

\* The part of standard_env the modelled programs use
standard_env ==
    Env([name \in {Symbol(bAdd), Symbol(bList), Symbol(bNot), Symbol(bBegin)} |->
            Builtin(name.s)], 0)

\* a dict key: numbers that compare equal are one key
KeyOf(v) == IF v.tag \in {"float", "bool"} /\ v.k = 0 THEN Num(v.n) ELSE v
\* a list cannot be hashed
Hashable(v) == v.tag # "list"

RECURSIVE find(_, _, _)
\* Env.find: the innermost frame of the chain from env that owns var;
\* 0 when the chain ends at outer = None (the host raises AttributeError)
find(h, env, var) ==
    IF env = 0 THEN 0
    ELSE IF KeyOf(var) \in DOMAIN h[env].vars THEN env
    ELSE find(h, h[env].outer, var)

\* dict.__setitem__ on one frame
EnvSet(h, frame, var, val) ==
    [h EXCEPT ![frame].vars = (KeyOf(var) :> val) @@ @]

\* define that searches outward first, as set! does
DefineTargetFound(h, env, var) == IF find(h, env, var) = 0 THEN env ELSE find(h, env, var)

\* the frame (define var ...) writes: env[var] = ...
DefineTarget(h, env, var) == env

\* set! that writes the current frame, as define does
AssignTargetCurrent(h, env, var) == env

\* the frame (set! var ...) writes: env.find(var)[var] = ...
AssignTarget(h, env, var) == find(h, env, var)

Min(a, b) == IF a < b THEN a ELSE b

\* Env.__init__(parms, args, outer): update(zip(parms, args)).  A list of
\* parameters is paired with the arguments up to the shorter of the two; a
\* symbol is iterated character by character; a number is not iterable.
ParmKeys(parms) ==
    IF parms.tag = "list" THEN parms.l
    ELSE [i \in DOMAIN parms.s |-> Symbol(<<parms.s[i]>>)]

EnvInit(parms, args, outer) ==
    IF parms.tag \notin {"list", "sym"} THEN [err |-> "TypeError", env |-> Env(<<>>, outer)]
    ELSE LET ks == ParmKeys(parms)
             n == Min(Len(ks), Len(args))
         IN  IF \E i \in 1..n : ~Hashable(ks[i])
             THEN [err |-> "TypeError", env |-> Env(<<>>, outer)]
             ELSE [err |-> "",
                   env |-> Env([key \in {KeyOf(ks[i]) : i \in 1..n} |->
                                  args[CHOOSE i \in 1..n :
                                         /\ KeyOf(ks[i]) = key
                                         /\ \A j \in 1..n : KeyOf(ks[j]) = key => j <= i]],
                               outer)]

\* ------------------------------------------------------------------ procedures
\* Procedure.__init__: params, body and the env of the lambda
Procedure(parms, body, env) ==
    [tag |-> "proc", n |-> 0, k |-> 0, s |-> <<>>, l |-> <<parms, body>>,
     env |-> env, born |-> 0]

\* a call frame with no outer: Env(self.params, args)
CallEnvNoOuter(proc, args) == EnvInit(proc.l[1], args, 0)

\* Procedure.__call__: the frame the body runs in
CallEnv(proc, args) == EnvInit(proc.l[1], args, proc.env)

\* ------------------------------------------------------------------ builtins
\* bool(v), as the host's conditional expression takes it
Truthy(v) ==
    CASE v.tag \in {"num", "float", "bool"} -> v.n # 0
      [] v.tag = "list" -> v.l # <<>>
      [] v.tag = "sym" -> v.s # <<>>
      [] v.tag = "none" -> FALSE
      [] OTHER -> TRUE

RECURSIVE Pow10(_)
Pow10(e) == IF e = 0 THEN 1 ELSE 10 * Pow10(e - 1)

IsNumber(v) == v.tag \in {"num", "float", "bool"}

\* op.add
Add(a, b) ==
    IF IsNumber(a) /\ IsNumber(b)
    THEN IF a.tag # "float" /\ b.tag # "float"
         THEN [val |-> Num(a.n + b.n), err |-> ""]
         ELSE LET e == IF a.k > b.k THEN a.k ELSE b.k
              IN  [val |-> Normal(a.n * Pow10(e - a.k) + b.n * Pow10(e - b.k), e), err |-> ""]
    ELSE IF a.tag = "list" /\ b.tag = "list" THEN [val |-> List(a.l \o b.l), err |-> ""]
    ELSE IF a.tag = "sym" /\ b.tag = "sym" THEN [val |-> Symbol(a.s \o b.s), err |-> ""]
    ELSE [val |-> None, err |-> "TypeError"]

ApplyBuiltin(name, args) ==
    CASE name = bAdd ->
            IF Len(args) # 2 THEN [val |-> None, err |-> "TypeError"] ELSE Add(args[1], args[2])
      [] name = bList -> [val |-> List(args), err |-> ""]
      [] name = bNot ->
            IF Len(args) # 1 THEN [val |-> None, err |-> "TypeError"]
            ELSE [val |-> Bool(~Truthy(args[1])), err |-> ""]
      [] name = bBegin ->
            IF args = <<>> THEN [val |-> None, err |-> "IndexError"]
            ELSE [val |-> args[Len(args)], err |-> ""]

\* ------------------------------------------------------------------ evaluate
\* What a call of evaluate leaves: the value or the exception, the heap, the log
Res(v, err, h, lg) == [val |-> v, err |-> err, heap |-> h, log |-> lg]

\* A log entry.  "call": proc was called from env and runs in frame; "define"
\* and "set": name was given val, evaluated in env, written to frame.  pre and
\* post are the heap just before and just after the step.
Event(kind, proc, env, frame, name, val, nargs, pre, post) ==
    [kind |-> kind, proc |-> proc, env |-> env, frame |-> frame, name |-> name,
     val |-> val, nargs |-> nargs, pre |-> pre, post |-> post]

\* a lambda that captures a copy of env made at this moment
EvalLambdaCopy(x, env, h, lg) ==
    Res([Procedure(x.l[2], x.l[3], Len(h) + 1) EXCEPT !.born = env], "",
        Append(h, h[env]), lg)

\* lines 167-169; born records, for the properties, the env of the evaluation
EvalLambda(x, env, h, lg) ==
    Res([Procedure(x.l[2], x.l[3], env) EXCEPT !.born = env], "", h, lg)

RECURSIVE evaluate(_, _, _, _, _), EvalIf(_, _, _, _, _), EvalDefine(_, _, _, _, _)
RECURSIVE EvalSet(_, _, _, _, _), EvalApply(_, _, _, _, _), EvalArgs(_, _, _, _, _, _)
RECURSIVE ProcedureCall(_, _, _, _, _, _)

\* lines 154-157
EvalIf(x, env, h, lg, d) ==
    IF Len(x.l) # 4 THEN Res(None, "ValueError", h, lg)
    ELSE LET t == evaluate(x.l[2], env, h, lg, d - 1)
         IN  IF t.err # "" THEN t
             ELSE evaluate(IF Truthy(t.val) THEN x.l[3] ELSE x.l[4], env, t.heap, t.log, d - 1)

\* lines 161-163: the value is evaluated first, then stored
EvalDefine(x, env, h, lg, d) ==
    IF Len(x.l) # 3 THEN Res(None, "ValueError", h, lg)
    ELSE LET v == evaluate(x.l[3], env, h, lg, d - 1)
             var == x.l[2]
         IN  IF v.err # "" THEN v
             ELSE IF ~Hashable(var) THEN Res(None, "TypeError", v.heap, v.log)
             ELSE LET f == DefineTarget(v.heap, env, var)
                      h2 == EnvSet(v.heap, f, var, v.val)
                  IN  Res(None, "", h2,
                          Append(v.log, Event("define", None, env, f, var, v.val, 0, v.heap, h2)))

\* lines 164-166: the value is evaluated first, then the frame is looked up
EvalSet(x, env, h, lg, d) ==
    IF Len(x.l) # 3 THEN Res(None, "ValueError", h, lg)
    ELSE LET v == evaluate(x.l[3], env, h, lg, d - 1)
             var == x.l[2]
         IN  IF v.err # "" THEN v
             ELSE IF ~Hashable(var) THEN Res(None, "TypeError", v.heap, v.log)
             ELSE LET f == AssignTarget(v.heap, env, var)
                  IN  IF f = 0 THEN Res(None, "AttributeError", v.heap, v.log)
                      ELSE LET h2 == EnvSet(v.heap, f, var, v.val)
                           IN  Res(None, "", h2,
                                   Append(v.log,
                                          Event("set", None, env, f, var, v.val, 0, v.heap, h2)))

\* line 172: the arguments, left to right; acc holds the values so far
EvalArgs(exps, env, h, lg, d, acc) ==
    IF exps = <<>> THEN Res(List(acc), "", h, lg)
    ELSE LET a == evaluate(Head(exps), env, h, lg, d - 1)
         IN  IF a.err # "" THEN a
             ELSE EvalArgs(Tail(exps), env, a.heap, a.log, d, Append(acc, a.val))

\* lines 144-145: a fresh frame, then the body evaluated in it
ProcedureCall(proc, args, caller, h, lg, d) ==
    LET e == CallEnv(proc, args)
    IN  IF e.err # "" THEN Res(None, e.err, h, lg)
        ELSE LET h2 == Append(h, e.env)
                 frame == Len(h2)
             IN  evaluate(proc.l[2], frame, h2,
                          Append(lg, Event("call", proc, caller, frame, None, None,
                                           Len(args), h, h2)),
                          d - 1)

\* lines 171-173
EvalApply(x, env, h, lg, d) ==
    LET p == evaluate(x.l[1], env, h, lg, d - 1)
    IN  IF p.err # "" THEN p
        ELSE LET a == EvalArgs(Tail(x.l), env, p.heap, p.log, d, <<>>)
             IN  IF a.err # "" THEN a
                 ELSE IF p.val.tag = "builtin"
                      THEN LET b == ApplyBuiltin(p.val.s, a.val.l)
                           IN  Res(b.val, b.err, a.heap, a.log)
                 ELSE IF p.val.tag = "proc"
                      THEN ProcedureCall(p.val, a.val.l, env, a.heap, a.log, d)
                 ELSE Res(None, "TypeError", a.heap, a.log)

\* d counts the nested evaluate calls the host stack still has room for
evaluate(x, env, h, lg, d) ==
    IF d = 0 THEN Res(None, "RecursionError", h, lg)
    ELSE IF x.tag = "sym"
         THEN LET f == find(h, env, x)
              IN  IF f = 0 THEN Res(None, "AttributeError", h, lg)
                  ELSE Res(h[f].vars[x], "", h, lg)
    ELSE IF x.tag # "list" THEN Res(x, "", h, lg)
    ELSE IF x.l = <<>> THEN Res(None, "IndexError", h, lg)
    ELSE IF x.l[1] = Symbol(kIf) THEN EvalIf(x, env, h, lg, d)
    ELSE IF x.l[1] = Symbol(kQuote)
         THEN IF Len(x.l) # 2 THEN Res(None, "ValueError", h, lg)
              ELSE Res(x.l[2], "", h, lg)
    ELSE IF x.l[1] = Symbol(kDefine) THEN EvalDefine(x, env, h, lg, d)
    ELSE IF x.l[1] = Symbol(kSet) THEN EvalSet(x, env, h, lg, d)
    ELSE IF x.l[1] = Symbol(kLambda)
         THEN IF Len(x.l) # 3 THEN Res(None, "ValueError", h, lg)
              ELSE EvalLambda(x, env, h, lg)
    ELSE EvalApply(x, env, h, lg, d)

\* ------------------------------------------------------------------ reclamation
RECURSIVE Refs(_)
\* the frames a value holds on to
Refs(v) ==
    IF v.tag = "proc" THEN {v.env, v.born} \ {0}
    ELSE IF v.tag = "list" THEN UNION {Refs(v.l[i]) : i \in DOMAIN v.l}
    ELSE {}

FrameRefs(h, i) ==
    ({h[i].outer} \ {0}) \cup UNION {Refs(h[i].vars[key]) : key \in DOMAIN h[i].vars}

RECURSIVE Reach(_, _)
\* the frames reachable from the frames S
Reach(h, S) ==
    LET T == S \cup UNION {FrameRefs(h, i) : i \in S}
    IN  IF T = S THEN S ELSE Reach(h, T)

\* the place of frame i among the surviving frames S
Rank(i, S) == IF i = 0 THEN 0 ELSE Cardinality({j \in S : j <= i})

RECURSIVE Renum(_, _)
Renum(v, S) ==
    IF v.tag = "proc" THEN [v EXCEPT !.env = Rank(v.env, S), !.born = Rank(v.born, S)]
    ELSE IF v.tag = "list" THEN List([i \in DOMAIN v.l |-> Renum(v.l[i], S)])
    ELSE v

\* the heap with only the frames S, in their order of creation
Collect(h, S) ==
    [j \in 1..Cardinality(S) |->
        LET i == CHOOSE i \in S : Rank(i, S) = j
        IN  Env([key \in DOMAIN h[i].vars |-> Renum(h[i].vars[key], S)],
                Rank(h[i].outer, S))]

\* ------------------------------------------------------------------ inputs
RECURSIVE Join(_)
\* the words of a program, one blank between two
Join(ws) ==
    IF ws = <<>> THEN <<>>
    ELSE IF Len(ws) = 1 THEN ws[1]
    ELSE ws[1] \o <<SP>> \o Join(Tail(ws))

L == <<LP>>
R == <<RP>>
X == <<"x">>
Y == <<"y">>
N == <<"n">>
F == <<"f">>
G == <<"g">>
C == <<"c">>
W == <<"w">>
D(i) == <<DigitChars[i + 1]>>

inDefineX == Join(<<L, kDefine, X, D(1), R>>)
inSetX == Join(<<L, kSet, X, D(2), R>>)
inX == X
inDefineG == Join(<<L, kDefine, G, L, kLambda, L, R, X, R, R>>)
inCallG == Join(<<L, G, R>>)
inDefineF ==
    Join(<<L, kDefine, F, L, kLambda, L, X, R, L, kLambda, L, Y, R, L, bAdd, X, Y, R, R, R, R>>)
inCallF == Join(<<L, L, F, D(3), R, D(4), R>>)
inCallGInner == Join(<<L, L, kLambda, L, X, R, L, G, R, R, D(9), R>>)
inDefineC ==
    Join(<<L, kDefine, C, L, L, kLambda, L, N, R,
           L, kLambda, L, R, L, bBegin, L, kSet, N, L, bNot, N, R, R, N, R, R, R, D(1), R, R>>)
inCallC == Join(<<L, C, R>>)
inDefineW == Join(<<L, kDefine, W, L, kLambda, L, R, L, W, R, R, R>>)
inCallW == Join(<<L, W, R>>)
inIfZero == Join(<<L, kIf, D(0), D(1), D(2), R>>)
inIfEmpty == Join(<<L, kIf, L, bList, R, D(1), D(2), R>>)
inIfFalse == Join(<<L, kIf, L, bNot, D(1), R, D(1), D(2), R>>)
inIfOne == Join(<<L, kIf, D(1), D(1), D(2), R>>)
inIfShort == Join(<<L, kIf, D(1), D(2), R>>)
inY == Y
inSetY == Join(<<L, kSet, Y, D(1), R>>)
inTwoArgs == Join(<<L, L, kLambda, L, X, R, X, R, D(5), D(6), R>>)
inNoArgs == Join(<<L, L, kLambda, L, X, R, D(8), R, R>>)
inSetInner == Join(<<L, L, kLambda, L, X, R, L, kSet, X, D(5), R, R, D(3), R>>)
inSetOuter == Join(<<L, L, kLambda, L, Y, R, L, kSet, X, Y, R, R, D(7), R>>)
inDefineInner ==
    Join(<<L, L, kLambda, L, Y, R, L, bBegin, L, kDefine, X, Y, R, X, R, R, D(9), R>>)
inOpen == Join(<<L, bAdd, D(1), D(2)>>)
inClose == R
inEmpty == <<>>

Inputs ==
    {inDefineX, inSetX, inX, inDefineG, inCallG, inDefineF, inCallF, inCallGInner,
     inDefineC, inCallC, inDefineW, inCallW, inIfZero, inIfEmpty, inIfFalse, inIfOne,
     inIfShort, inY, inSetY, inTwoArgs, inNoArgs, inSetInner, inSetOuter,
     inDefineInner, inOpen, inClose, inEmpty}

\* ------------------------------------------------------------------ top level
\* parse reads nothing but its argument: its outcome on each input, tabulated
Parsed == [t \in Inputs |-> parse(t)]

\* evaluate(parse(t)) on GLOBAL_ENV, as line 121 calls it; the exception, if
\* any, reaches the caller
Toplevel(t, h) ==
    LET p == Parsed[t]
    IN  IF p.err # "" THEN Res(None, p.err, h, <<>>)
        ELSE LET r == evaluate(p.val, 1, h, <<>>, MaxDepth)
                 S == Reach(r.heap, {1} \cup Refs(r.val))
             IN  Res(Renum(r.val, S), r.err, Collect(r.heap, S), r.log)

\* lispstr: "exp. List" reads the attribute List of exp, which no value has
lispstr(exp) == [val |-> None, err |-> "AttributeError"]

Outcome(v, err) == [val |-> v, err |-> err]

EvalInit ==
    /\ heap = <<standard_env>>
    /\ inp = <<>>
    /\ out = Outcome(None, "")
    /\ log = <<>>
    /\ pc = "idle"

ReaderIdle ==
    /\ text = <<>>
    /\ tokens = <<>>
    /\ rd = NoRead
    /\ rpc = "idle"

Init == ReaderIdle /\ EvalInit

\* a caller of the module runs evaluate(parse(t)) and gets r
Ran(t, r) ==
    /\ heap' = r.heap
    /\ inp' = t
    /\ out' = Outcome(r.val, r.err)
    /\ log' = r.log

ParseRaises ==
    /\ pc = "idle"
    /\ \E t \in Inputs :
          /\ Parsed[t].err # ""
          /\ Ran(t, Toplevel(t, heap))
    /\ UNCHANGED <<pc, readerVars>>

EvaluateRaises ==
    /\ pc = "idle"
    /\ \E t \in Inputs :
          /\ Parsed[t].err = ""
          /\ LET r == Toplevel(t, heap) IN r.err # "" /\ Ran(t, r)
    /\ UNCHANGED <<pc, readerVars>>

EvaluateReturns ==
    /\ pc = "idle"
    /\ \E t \in Inputs :
          /\ Parsed[t].err = ""
          /\ LET r == Toplevel(t, heap) IN r.err = "" /\ Ran(t, r)
    /\ UNCHANGED <<pc, readerVars>>

Next == ParseRaises \/ EvaluateRaises \/ EvaluateReturns

Spec == Init /\ [][Next]_vars

\* ------------------------------------------------------------------ repl
ReplStart ==
    /\ pc = "idle"
    /\ pc' = "read"
    /\ UNCHANGED <<heap, inp, out, log, readerVars>>

\* line 121: an exception leaves the loop and repl; None is not printed
ReplRead ==
    /\ pc = "read"
    /\ \E t \in Inputs :
          LET r == Toplevel(t, heap)
          IN  /\ Ran(t, r)
              /\ pc' = IF r.err # "" THEN "dead"
                       ELSE IF r.val = None THEN "read" ELSE "print"
    /\ UNCHANGED readerVars

\* lines 123-124: print(lispstr(val))
ReplPrint ==
    /\ pc = "print"
    /\ LET s == lispstr(out.val)
       IN  /\ out' = IF s.err # "" THEN Outcome(out.val, s.err) ELSE out
           /\ pc' = IF s.err # "" THEN "dead" ELSE "read"
    /\ UNCHANGED <<heap, inp, log, readerVars>>

ReplNext == ReplStart \/ ReplRead \/ ReplPrint

ReplSpec == Init /\ [][ReplNext]_vars

ReaderNext == Tokenize \/ ReadTokens

ReaderStart == ReaderInit /\ EvalInit

ReaderSpec == ReaderStart /\ [][ReaderNext]_vars

\* ------------------------------------------------------------------ properties
RECURSIVE Chain(_, _)
\* the frames from env outward to the global frame
Chain(h, env) == IF env = 0 THEN <<>> ELSE <<env>> \o Chain(h, h[env].outer)

Owns(h, frame, name) == KeyOf(name) \in DOMAIN h[frame].vars

\* the first frame of the chain from env that owns name; 0 if none does
InnermostOwner(h, env, name) ==
    LET ch == Chain(h, env)
        own == {i \in DOMAIN ch : Owns(h, ch[i], name)}
    IN  IF own = {} THEN 0 ELSE ch[CHOOSE i \in own : \A j \in own : i <= j]

\* the value a lookup of name from env yields in heap h
Bound(h, env, name) == h[InnermostOwner(h, env, name)].vars[KeyOf(name)]

Calls == {i \in DOMAIN log : log[i].kind = "call"}
Sets == {i \in DOMAIN log : log[i].kind = "set"}
Defines == {i \in DOMAIN log : log[i].kind = "define"}

\* C1: every closure call runs in a fresh frame whose outer frame is the
\* environment in which the lambda was evaluated, whatever environment the
\* call is made from; so ((f 3) 4) yields 7, and a closure reading the free
\* variable x, called from a frame that binds x to 9, yields the x of its
\* defining chain.
C1_LexicalScope ==
    /\ \A i \in Calls :
          /\ log[i].frame \notin DOMAIN log[i].pre
          /\ log[i].post[log[i].frame].outer = log[i].proc.born
    /\ (inp = inCallF /\ Owns(heap, 1, Symbol(F))) => out = Outcome(Num(7), "")
    /\ (inp = inCallGInner /\ Owns(heap, 1, Symbol(G)) /\ Owns(heap, 1, Symbol(X)))
          => out = Outcome(heap[1].vars[Symbol(X)], "")

\* a closure was called from an environment other than its defining one, and
\* its free variable resolved through the defining chain
C1_Witness ==
    /\ inp = inCallF
    /\ out = Outcome(Num(7), "")
    /\ \E i \in Calls : log[i].env # log[i].proc.born /\ log[i].proc.born # 1

\* the closures bound in the frames of h
ClosuresOf(h) ==
    {h[i].vars[key] : <<i, key>> \in
        {q \in (DOMAIN h) \X UNION {DOMAIN h[i].vars : i \in DOMAIN h} :
            q[2] \in DOMAIN h[q[1]].vars /\ h[q[1]].vars[q[2]].tag = "proc"}}

\* C2: a closure holds the very frame its lambda was evaluated in, at every
\* moment after its creation, and a call of it reads the bindings that frame
\* chain has at the time of the call: what an earlier set! wrote there.
C2_SharedFrame ==
    /\ \A c \in ClosuresOf(heap) : c.env = c.born
    /\ \A i \in Calls : \A c \in ClosuresOf(log[i].post) : c.env = c.born
    /\ (inp = inCallG /\ out.err = "")
          => out.val = Bound(log[1].pre, log[1].proc.born, Symbol(X))
    /\ (inp = inCallC /\ out.err = "")
          => out.val = Bool(~Truthy(Bound(log[1].pre, log[1].proc.born, Symbol(N))))

\* the closure c was called after an earlier call of it had overwritten n in
\* the frame it captured: it read the overwritten value, False, and wrote True
C2_Witness ==
    /\ inp = inCallC
    /\ out = Outcome(Bool(TRUE), "")
    /\ log[1].proc.env # 1
    /\ log[1].pre[log[1].proc.env].vars[Symbol(N)] = Bool(FALSE)

\* C3: (if test conseq alt) yields alt only when test is the false value; for
\* 0, the empty list and every other value it yields conseq.
C3_OnlyFalseIsFalsy ==
    /\ inp = inIfZero => out = Outcome(Num(1), "")
    /\ inp = inIfEmpty => out = Outcome(Num(1), "")
    /\ inp = inIfOne => out = Outcome(Num(1), "")
    /\ inp = inIfFalse => out = Outcome(Num(2), "")

\* C4: a set! that finds an owner of the name overwrites the binding in the
\* innermost owning frame of the chain and nothing else: the heap after it is
\* the heap before it with that one binding replaced, and the current frame
\* has the names it had.
C4_AssignInnermost ==
    \A i \in Sets :
        LET e == log[i]
            o == InnermostOwner(e.pre, e.env, e.name)
        IN  /\ o # 0
            /\ e.frame = o
            /\ DOMAIN e.post = DOMAIN e.pre
            /\ \A j \in DOMAIN e.pre :
                  /\ e.post[j].outer = e.pre[j].outer
                  /\ DOMAIN e.post[j].vars = DOMAIN e.pre[j].vars
                  /\ \A key \in DOMAIN e.pre[j].vars :
                        e.post[j].vars[key] =
                            IF j = o /\ key = KeyOf(e.name) THEN e.val ELSE e.pre[j].vars[key]

\* a set! of a name that the current call frame and the global frame both own
\* overwrote the call frame's binding and left the global one
C4_Witness ==
    \E i \in Sets :
        LET e == log[i]
        IN  /\ e.env # 1
            /\ Owns(e.pre, e.env, e.name)
            /\ Owns(e.pre, 1, e.name)
            /\ e.pre[e.env].vars[KeyOf(e.name)] # e.val
            /\ e.post[e.env].vars[KeyOf(e.name)] = e.val
            /\ e.post[1].vars[KeyOf(e.name)] # e.val

\* C5: a define binds the name in the frame it is evaluated in and leaves every
\* other frame as it was, also when an outer frame owns the name; a lookup of
\* the name from that frame then yields the new value.
C5_DefineLocal ==
    \A i \in Defines :
        LET e == log[i]
        IN  /\ e.frame = e.env
            /\ DOMAIN e.post = DOMAIN e.pre
            /\ \A j \in DOMAIN e.pre : j # e.env => e.post[j] = e.pre[j]
            /\ e.post[e.env].outer = e.pre[e.env].outer
            /\ DOMAIN e.post[e.env].vars = DOMAIN e.pre[e.env].vars \cup {KeyOf(e.name)}
            /\ \A key \in DOMAIN e.pre[e.env].vars :
                  key # KeyOf(e.name) => e.post[e.env].vars[key] = e.pre[e.env].vars[key]
            /\ Bound(e.post, e.env, e.name) = e.val

\* a define in a call frame of a name the global frame owns with another value:
\* the call frame got a new binding, the global binding stayed
C5_Witness ==
    \E i \in Defines :
        LET e == log[i]
        IN  /\ e.env # 1
            /\ ~Owns(e.pre, e.env, e.name)
            /\ Owns(e.pre, 1, e.name)
            /\ e.pre[1].vars[KeyOf(e.name)] # e.val
            /\ e.post[1].vars[KeyOf(e.name)] = e.pre[1].vars[KeyOf(e.name)]
            /\ out = Outcome(e.val, "")

\* C6: evaluating a symbol, or a set! of a name, that no frame of the chain
\* owns fails with UnboundVariable.
C6_UnboundVariable ==
    (inp \in {inY, inSetY} /\ ~Owns(heap, 1, Symbol(Y))) => out.err = "UnboundVariable"

\* C7: a closure called with more or fewer arguments than it has parameters
\* fails with ArityError.
C7_ArityError ==
    \A i \in Calls :
        (log[i].proc.l[1].tag = "list" /\ log[i].nargs # Len(log[i].proc.l[1].l))
            => out.err = "ArityError"

\* the running count of open parentheses after each token
RECURSIVE Depth(_, _)
Depth(toks, i) ==
    IF i = 0 THEN 0
    ELSE Depth(toks, i - 1)
            + (IF toks[i] = <<LP>> THEN 1 ELSE IF toks[i] = <<RP>> THEN 0 - 1 ELSE 0)

\* the tokens end while a close parenthesis is still expected
EndsOpen(toks) == toks # <<>> /\ \A i \in DOMAIN toks : Depth(toks, i) >= 1

\* C8: reading fails with SyntaxError when the token list is empty, when it
\* ends while a close parenthesis is expected, and when it starts with a close
\* parenthesis.
C8_SyntaxErrors ==
    (rpc = "done" /\ (tokens = <<>> \/ EndsOpen(tokens) \/ Head(tokens) = <<RP>>))
        => rd.err = "SyntaxError"

\* the number of tokens of the first expression of toks; 0 if toks does not
\* begin with a balanced expression
FirstExpr(toks) ==
    LET ends == {i \in DOMAIN toks : Depth(toks, i) <= 0}
    IN  IF ends = {} THEN 0
        ELSE LET m == CHOOSE i \in ends : \A j \in ends : i <= j
             IN  IF Depth(toks, m) = 0 THEN m ELSE 0

RECURSIVE Flatten(_)
\* the expression written out again: atoms as values, parentheses as symbols
Flatten(v) ==
    IF v.tag = "list"
    THEN LET F2[i \in 0..Len(v.l)] ==
                 IF i = 0 THEN <<Symbol(<<LP>>)>> ELSE F2[i - 1] \o Flatten(v.l[i])
         IN  Append(F2[Len(v.l)], Symbol(<<RP>>))
    ELSE <<v>>

\* C9: on a token list that begins with a balanced expression, read_from_tokens
\* returns the nested list of its sub-expressions in source order, removes
\* exactly the tokens of that expression, and leaves the trailing tokens.
C9_ReadsFirstExpr ==
    (rpc = "done" /\ FirstExpr(tokens) > 0) =>
        LET m == FirstExpr(tokens)
        IN  /\ rd.err = ""
            /\ rd.rest = SubSeq(tokens, m + 1, Len(tokens))
            /\ Flatten(rd.val) =
                  [i \in 1..m |-> IF tokens[i] \in {<<LP>>, <<RP>>}
                                  THEN Symbol(tokens[i]) ELSE atom(tokens[i])]

\* a nested list with two elements was read and a trailing token left
C9_Witness ==
    /\ rpc = "done"
    /\ rd.err = ""
    /\ rd.val.tag = "list"
    /\ Len(rd.val.l) = 2
    /\ rd.val.l[1].tag = "list"
    /\ rd.rest # <<>>
    /\ Len(rd.rest) < Len(tokens)

\* C10: after a failed input the loop is reading the next input.
C10_ReplResumes == out.err # "" => pc = "read"

====
